---- MODULE Spec2Model ----
(***************************************************************************)
(* A model of ABTestAnalyzer (src/ab_test_analyzer.py): the constructor    *)
(* (load_and_prepare_data, _data_quality_checks), power_analysis,          *)
(* statistical_tests, create_results_visualization and                     *)
(* business_recommendations.                                               *)
(*                                                                         *)
(* Numbers.  Python floats are modelled as fixed-point values with Scale   *)
(* units per 1.0, together with the IEEE specials nan, +inf and -inf.      *)
(* The z statistic of the pooled two-proportion test is kept exactly, as   *)
(* its sign and the rational z^2; a p-value 2*(1 - Phi(|z|)) is kept as    *)
(* the z^2 it is computed from (it is strictly decreasing in z^2), and is  *)
(* compared with a level alpha through the critical value of that level.   *)
(***************************************************************************)
EXTENDS Integers, Sequences, FiniteSets, TLC

VARIABLES ab_test, countries, pc, data, alpha, raised, quality, results, report,
          power, plot, advice, counts

vars == <<ab_test, countries, pc, data, alpha, raised, quality, results, report,
          power, plot, advice, counts>>

(***************************************************************************)
(* Bounds of the model.                                                    *)
(***************************************************************************)
\* rows of an analysis input (one row per identifier)
MaxRows == 5
\* rows of the ab_test file of a loading input (identifiers may repeat)
MaxRaw == 3
\* rows of an input of a session of method calls
MaxSession == 4
\* rows of each odd kind (wrong page, missing page) in an input of the
\* validation at the 1% threshold
MaxOdd == 2
\* distance of the conversion counts from those of the 120 / 150 scenario
MaxShift == 5

(***************************************************************************)
(* Values.                                                                 *)
(***************************************************************************)
\* a missing value (pandas NaN) in a column
NA == "NaN"
Groups == {"control", "treatment"}
Pages == {"old_page", "new_page"}
\* the stratum labels of the inputs; "overall" is a label like any other
Labels == {"US", "overall"}
\* fixed-point units per 1.0
Scale == 10 ^ 4

Min(a, b) == IF a <= b THEN a ELSE b
Max(a, b) == IF a >= b THEN a ELSE b
Abs(a) == IF a >= 0 THEN a ELSE 0 - a

RECURSIVE GCD(_, _)
GCD(a, b) == IF b = 0 THEN a ELSE GCD(b, a % b)


(***************************************************************************)
(* load_and_prepare_data: pd.merge(ab_test, countries, on='id',            *)
(* how='inner'), duplicated('id') and drop_duplicates(subset='id').        *)
(***************************************************************************)
JoinRow(a, c) ==
    [id |-> a.id, con_treat |-> a.con_treat, page |-> a.page,
     converted |-> a.converted, country |-> c.country]

\* the rows of the right file that match one left row, in the right file's order
RECURSIVE MatchRows(_, _, _)
MatchRows(a, right, j) ==
    IF j > Len(right) THEN <<>>
    ELSE (IF right[j].id = a.id THEN <<JoinRow(a, right[j])>> ELSE <<>>)
         \o MatchRows(a, right, j + 1)

\* the inner join keeps the order of the left keys; unmatched ids are dropped
RECURSIVE MergeFrom(_, _, _)
MergeFrom(left, right, i) ==
    IF i > Len(left) THEN <<>>
    ELSE MatchRows(left[i], right, 1) \o MergeFrom(left, right, i + 1)

Merge(left, right) == MergeFrom(left, right, 1)

\* data.duplicated('id'): a row is a duplicate when an earlier row has its id
Duplicated(d, i) == \E j \in 1..(i - 1) : d[j].id = d[i].id

DuplicateCount(d) == Cardinality({i \in 1..Len(d) : Duplicated(d, i)})

\* a variant keeping the last row of every id (keep='last')
RECURSIVE DropLast(_, _)
DropLast(d, i) ==
    IF i > Len(d) THEN <<>>
    ELSE (IF \E j \in (i + 1)..Len(d) : d[j].id = d[i].id THEN <<>> ELSE <<d[i]>>)
         \o DropLast(d, i + 1)

DropDuplicatesKeepLast(d) == DropLast(d, 1)

RECURSIVE DropFrom(_, _)
DropFrom(d, i) ==
    IF i > Len(d) THEN <<>>
    ELSE (IF Duplicated(d, i) THEN <<>> ELSE <<d[i]>>) \o DropFrom(d, i + 1)

\* data.drop_duplicates(subset='id'): keep='first'
DropDuplicates(d) == DropFrom(d, 1)

\* lines 38-44: the rows are dropped only when duplicates were counted
LoadedData(left, right) ==
    LET merged == Merge(left, right)
    IN  IF DuplicateCount(merged) > 0 THEN DropDuplicates(merged) ELSE merged

(***************************************************************************)
(* _data_quality_checks.                                                   *)
(***************************************************************************)
\* pd.crosstab(con_treat, page) drops the rows with a missing key
InCrosstab(r) == r.con_treat # NA /\ r.page # NA
CrosstabRows(d) == {i \in 1..Len(d) : InCrosstab(d[i])}

CrosstabIndex(d) == {d[i].con_treat : i \in CrosstabRows(d)}
CrosstabColumns(d) == {d[i].page : i \in CrosstabRows(d)}
CrosstabCell(d, g, p) ==
    Cardinality({i \in CrosstabRows(d) : d[i].con_treat = g /\ d[i].page = p})
CrosstabRowSum(d, g) ==
    Cardinality({i \in CrosstabRows(d) : d[i].con_treat = g})

\* data.isnull().sum(): the missing values of every column
MissingCounts(d) ==
    [con_treat |-> Cardinality({i \in 1..Len(d) : d[i].con_treat = NA}),
     page      |-> Cardinality({i \in 1..Len(d) : d[i].page = NA}),
     country   |-> Cardinality({i \in 1..Len(d) : d[i].country = NA})]

\* data['con_treat'].value_counts(): the sizes of the groups present
GroupSize(d, g) == Cardinality({i \in 1..Len(d) : d[i].con_treat = g})
GroupsPresent(d) == {g \in Groups : GroupSize(d, g) > 0}

\* the smallest and the largest of a non-empty set of numbers
SetMin(S) == CHOOSE x \in S : \A y \in S : x <= y
SetMax(S) == CHOOSE x \in S : \A y \in S : x >= y

NoQuality ==
    [missing |-> [con_treat |-> 0, page |-> 0, country |-> 0],
     high_misassignment |-> FALSE, unbalanced |-> FALSE]

\* the threshold of line 77 as rate >= 1%
HighMisassignmentAtLeast(wrong, total) == total > 0 /\ 100 * wrong >= total

\* line 71, 72 and 77: wrong / total > 0.01, the rate being 0 for an empty total
HighMisassignment(wrong, total) == total > 0 /\ 100 * wrong > total

\* line 87 and 90: min / max < 0.8
Unbalanced(sizes) == 10 * SetMin(sizes) < 8 * SetMax(sizes)

\* the outcome of _data_quality_checks: the error it raises, or its warnings.
\* .loc['control', ...] and .loc['treatment', ...] raise KeyError when the
\* crosstab has no such row
DataQualityChecks(d) ==
    LET idx  == CrosstabIndex(d)
        cols == CrosstabColumns(d)
        fail == [raised |-> "KeyError", quality |-> NoQuality]
    IN  IF "new_page" \in cols /\ "control" \notin idx THEN fail
        ELSE IF "old_page" \in cols /\ "treatment" \notin idx THEN fail
        ELSE IF "control" \notin idx THEN fail
        ELSE IF "treatment" \notin idx THEN fail
        ELSE LET control_with_new   == CrosstabCell(d, "control", "new_page")
                 treatment_with_old == CrosstabCell(d, "treatment", "old_page")
                 total_control      == CrosstabRowSum(d, "control")
                 total_treatment    == CrosstabRowSum(d, "treatment")
                 sizes == {GroupSize(d, g) : g \in GroupsPresent(d)}
             IN  [raised  |-> "none",
                  quality |->
                    [missing |-> MissingCounts(d),
                     high_misassignment |->
                        HighMisassignment(control_with_new, total_control)
                        \/ HighMisassignment(treatment_with_old, total_treatment),
                     unbalanced |-> Unbalanced(sizes)]]

(***************************************************************************)
(* Floating-point values: [k |-> "num", v |-> fixed-point value], nan, or  *)
(* an infinity with its sign in v.                                         *)
(***************************************************************************)
Num(v) == [k |-> "num", v |-> v]
NaN == [k |-> "nan", v |-> 0]
Inf(sign) == [k |-> "inf", v |-> sign]

IsNum(x) == x.k = "num"
IsNaN(x) == x.k = "nan"

\* numpy's integer / integer: x / 0 is nan for x = 0 and an infinity
\* otherwise (a RuntimeWarning, no exception)
IntDiv(a, b) ==
    IF b = 0 THEN (IF a = 0 THEN NaN ELSE Inf(IF a > 0 THEN 1 ELSE 0 - 1))
    ELSE Num((a * Scale) \div b)

FSub(x, y) == IF IsNum(x) /\ IsNum(y) THEN Num(x.v - y.v) ELSE NaN

\* numpy's float / float
FDiv(x, y) ==
    IF ~(IsNum(x) /\ IsNum(y)) THEN NaN
    ELSE IF y.v = 0
         THEN (IF x.v = 0 THEN NaN ELSE Inf(IF x.v > 0 THEN 1 ELSE 0 - 1))
         ELSE Num((x.v * Scale) \div y.v)

\* x * 100
Times100(x) == IF IsNum(x) THEN Num(x.v * 100) ELSE x

\* x <= y on floats: false as soon as one side is nan
FLeq(x, y) == IsNum(x) /\ IsNum(y) /\ x.v <= y.v

\* np.clip(x, 0, 1)
Clip01(x) == IF IsNum(x) THEN Num(Max(0, Min(Scale, x.v))) ELSE x

\* the integer square root (the largest r with r * r <= n), by bisection
RECURSIVE ISqrtIn(_, _, _)
ISqrtIn(n, lo, hi) ==
    IF lo >= hi THEN lo
    ELSE LET mid == (lo + hi + 1) \div 2
         IN  IF mid * mid <= n THEN ISqrtIn(n, mid, hi) ELSE ISqrtIn(n, lo, mid - 1)

ISqrt(n) == ISqrtIn(n, 0, Min(n, 46340))

(***************************************************************************)
(* Significance levels are rationals <<numerator, denominator>>.           *)
(***************************************************************************)
\* self.alpha = 0.05 (line 20)
NominalAlpha == <<5, 100>>
\* the level of an analyzer under construction
NoAlpha == <<>>

\* a variant multiplying the level by the number of tests
AlphaTimes(a, n) == <<a[1] * n, a[2]>>

\* alpha / n for n > 0
AlphaOver(a, n) == <<a[1], a[2] * n>>

RatLess(a, b) == a[1] * b[2] < b[1] * a[2]
RatEq(a, b) == a[1] * b[2] = b[1] * a[2]

\* the number n with a = 0.05 / n
Tests(a) == (a[2] * 5) \div (a[1] * 100)

\* scipy.stats.norm.isf(a / 2) for a = 0.05 / n, in fixed point
NormIsfHalf(a) ==
    CASE Tests(a) = 1 -> 19600
      [] Tests(a) = 2 -> 22414
      [] Tests(a) = 3 -> 23940
      [] Tests(a) = 4 -> 24977
      [] Tests(a) = 5 -> 25758
      [] Tests(a) = 6 -> 26383
      [] Tests(a) = 7 -> 26901
      [] OTHER        -> 27344

\* the square of norm.isf(a / 2): a p-value is below a = 0.05 / n exactly
\* when its z^2 is above this value
ChiSqCritical(a) ==
    CASE Tests(a) = 1 -> 38415
      [] Tests(a) = 2 -> 50239
      [] Tests(a) = 3 -> 57311
      [] Tests(a) = 4 -> 62385
      [] Tests(a) = 5 -> 66349
      [] Tests(a) = 6 -> 69604
      [] Tests(a) = 7 -> 72367
      [] OTHER        -> 74768

(***************************************************************************)
(* statsmodels: proportions_ztest and proportion_confint.                  *)
(***************************************************************************)
\* a rational in lowest terms, its denominator positive
Reduce(n, d) ==
    LET g == GCD(Abs(n), Abs(d))
    IN  IF d < 0 THEN <<(0 - n) \div g, (0 - d) \div g>> ELSE <<n \div g, d \div g>>

RatMul(a, b) ==
    LET x == Reduce(a[1], b[2])
        y == Reduce(b[1], a[2])
    IN  <<x[1] * y[1], x[2] * y[2]>>

NaNStat == [k |-> "nan", sign |-> 0, num |-> 0, den |-> 1]

\* the difference of the two proportions and the variance of the pooled test
PropDiff(s1, s2, n1, n2) == Reduce(s1 * n2 - s2 * n1, n1 * n2)
PooledVar(s1, s2, n1, n2) ==
    RatMul(Reduce(s1 + s2, n1 + n2), Reduce(n1 + n2 - s1 - s2, n1 * n2))

Sign(x) == IF x > 0 THEN 1 ELSE IF x < 0 THEN 0 - 1 ELSE 0

\* z and z^2 = diff^2 / var for a variance that is not 0
ZOf(diff, var) ==
    [k |-> "num", sign |-> Sign(diff[1]),
     num |-> RatMul(RatMul(diff, diff), <<var[2], var[1]>>)[1],
     den |-> RatMul(RatMul(diff, diff), <<var[2], var[1]>>)[2]]

\* proportions_ztest([s1, s2], [n1, n2]): z = (s1/n1 - s2/n2) / sqrt(p(1-p)(1/n1 + 1/n2))
\* with the pooled p = (s1 + s2) / (n1 + n2).
\* A zero-trial sample gives nan, and so does a pooled rate of 0 or 1 (0 / 0).
ZStat(s1, s2, n1, n2) ==
    IF n1 = 0 \/ n2 = 0 THEN NaNStat
    ELSE IF PooledVar(s1, s2, n1, n2)[1] = 0
         THEN (IF PropDiff(s1, s2, n1, n2)[1] = 0 THEN NaNStat
               ELSE [k |-> "inf", sign |-> Sign(PropDiff(s1, s2, n1, n2)[1]),
                     num |-> 0, den |-> 1])
         ELSE ZOf(PropDiff(s1, s2, n1, n2), PooledVar(s1, s2, n1, n2))

\* the two-sided p-value 2 * norm.sf(|z|) of a z statistic, kept as its z^2
PValue(z) ==
    CASE z.k = "num" -> [k |-> "num", num |-> z.num, den |-> z.den]
      [] z.k = "inf" -> [k |-> "zero", num |-> 0, den |-> 1]
      [] OTHER       -> [k |-> "nan", num |-> 0, den |-> 1]

ProportionsZTest(s1, s2, n1, n2) ==
    [z_stat |-> ZStat(s1, s2, n1, n2), p_value |-> PValue(ZStat(s1, s2, n1, n2))]

\* a / b > c / d for a, c >= 0 and b, d > 0: the integer parts are compared,
\* then the reciprocals of the remainders; no product is formed
RECURSIVE RatGreater(_, _, _, _)
RatGreater(a, b, c, d) ==
    IF a \div b # c \div d THEN a \div b > c \div d
    ELSE IF a % b = 0 THEN FALSE
    ELSE IF c % d = 0 THEN TRUE
    ELSE RatGreater(d, c % d, b, a % b)

\* p < a for a p-value and a level a = 0.05 / n; a nan p-value is below nothing
PLess(p, a) ==
    \/ p.k = "zero"
    \/ p.k = "num" /\ RatGreater(p.num, p.den, ChiSqCritical(a), Scale)

\* the p-value is exactly 1 (z = 0)
PIsOne(p) == p.k = "num" /\ p.num = 0

\* the proportion q and the half-width norm.isf(alpha / 2) * sqrt(q (1 - q) / nobs)
Proportion(count, nobs) == (count * Scale) \div nobs
HalfWidth(q, nobs, a) == (NormIsfHalf(a) * ISqrt((q * (Scale - q)) \div nobs)) \div Scale

\* proportion_confint(count, nobs, alpha, method='normal'): q -+ the half-width,
\* clipped to [0, 1]
ProportionConfint(count, nobs, a) ==
    IF nobs = 0 THEN [low |-> NaN, upp |-> NaN]
    ELSE [low |-> Clip01(Num(Proportion(count, nobs)
                             - HalfWidth(Proportion(count, nobs), nobs, a))),
          upp |-> Clip01(Num(Proportion(count, nobs)
                             + HalfWidth(Proportion(count, nobs), nobs, a)))]

(***************************************************************************)
(* statistical_tests.                                                      *)
(***************************************************************************)
\* len(frame[frame['con_treat'] == g])
GroupRows(d, g) == {i \in 1..Len(d) : d[i].con_treat = g}

\* frame['converted'].sum() over a set of rows
Conversions(d, rows) == Cardinality({i \in rows : d[i].converted = 1})

\* a variant in which a missing label equals a missing label
CountryRowsNaNEqual(d, c) == {i \in 1..Len(d) : d[i].country = c}

\* data['country'] == country: a missing label equals nothing, itself included
CountryRows(d, c) == {i \in 1..Len(d) : c # NA /\ d[i].country # NA /\ d[i].country = c}

\* data['country'].unique(): the distinct values in order of first appearance,
\* the missing label among them
RECURSIVE UniqueFrom(_, _)
UniqueFrom(d, i) ==
    IF i > Len(d) THEN <<>>
    ELSE (IF \E j \in 1..(i - 1) : d[j].country = d[i].country THEN <<>>
          ELSE <<d[i].country>>) \o UniqueFrom(d, i + 1)

Unique(d) == UniqueFrom(d, 1)

\* a variant subtracting in the other direction, control first
CIDiffControlFirst(t_ci, c_ci) ==
    [low |-> FSub(c_ci.low, t_ci.upp), upp |-> FSub(c_ci.upp, t_ci.low)]

\* lines 206-207 and 262-263: the interval on the difference, treatment first
CIDiff(t_ci, c_ci) ==
    [low |-> FSub(t_ci.low, c_ci.upp), upp |-> FSub(t_ci.upp, c_ci.low)]

\* lines 198-200 and 254-256: the two rates and their difference
Rate(conv, size) == IntDiv(conv, size)
Effect(t_conv, c_conv, t_size, c_size) == FSub(Rate(t_conv, t_size), Rate(c_conv, c_size))

\* a variant building the interval of every scope at the nominal level
CIOfDifferenceNominal(t_conv, c_conv, t_size, c_size, a) ==
    CIDiff(ProportionConfint(t_conv, t_size, NominalAlpha),
           ProportionConfint(c_conv, c_size, NominalAlpha))

\* lines 204-207 and 260-263: the interval on the difference at level a
CIOfDifference(t_conv, c_conv, t_size, c_size, a) ==
    CIDiff(ProportionConfint(t_conv, t_size, a), ProportionConfint(c_conv, c_size, a))

\* a variant reporting the relative effect as a fraction, not in percent
OverallRelativeEffectFraction(effect, c_rate) == FDiv(effect, c_rate)

\* line 201: the relative effect of the overall scope, unguarded
OverallRelativeEffect(effect, c_rate) == Times100(FDiv(effect, c_rate))

\* line 218: the flag of the overall scope
OverallFlag(p_value, a) == PLess(p_value, a)

\* lines 193-219: the overall entry from the counts of the two groups
OverallEntry(t_conv, c_conv, t_size, c_size, a) ==
    [control_rate    |-> Rate(c_conv, c_size),
     treatment_rate  |-> Rate(t_conv, t_size),
     effect_size     |-> Effect(t_conv, c_conv, t_size, c_size),
     relative_effect |-> OverallRelativeEffect(Effect(t_conv, c_conv, t_size, c_size),
                                               Rate(c_conv, c_size)),
     z_stat          |-> ProportionsZTest(t_conv, c_conv, t_size, c_size).z_stat,
     p_value         |-> ProportionsZTest(t_conv, c_conv, t_size, c_size).p_value,
     ci_low          |-> CIOfDifference(t_conv, c_conv, t_size, c_size, a).low,
     ci_high         |-> CIOfDifference(t_conv, c_conv, t_size, c_size, a).upp,
     significant     |-> OverallFlag(ProportionsZTest(t_conv, c_conv, t_size, c_size).p_value, a)]

\* lines 185-219: the overall test at the nominal level
OverallResult(d, a) ==
    OverallEntry(Conversions(d, GroupRows(d, "treatment")),
                 Conversions(d, GroupRows(d, "control")),
                 Cardinality(GroupRows(d, "treatment")),
                 Cardinality(GroupRows(d, "control")), a)

\* a variant testing a stratum as soon as one of its groups has rows
TestableEither(c_size, t_size) == c_size > 0 \/ t_size > 0

\* line 251: a stratum is tested when both of its groups have rows
Testable(c_size, t_size) == c_size > 0 /\ t_size > 0

\* line 257: the relative effect of a stratum, 0 for a control rate of 0
StratumRelativeEffect(effect, c_rate) ==
    IF IsNum(c_rate) /\ c_rate.v > 0 THEN Times100(FDiv(effect, c_rate)) ELSE Num(0)

\* a variant deciding the flag of a stratum at the nominal level
StratumFlagNominal(p_val, a, bonferroni_alpha) == PLess(p_val, a)

\* line 272: the flag of a stratum
StratumFlag(p_val, a, bonferroni_alpha) == PLess(p_val, bonferroni_alpha)

\* lines 252-275: the entry of a tested stratum from the counts of its two groups
StratumEntry(t_conv, c_conv, t_size, c_size, a, bonferroni_alpha) ==
    [control_rate     |-> Rate(c_conv, c_size),
     treatment_rate   |-> Rate(t_conv, t_size),
     effect_size      |-> Effect(t_conv, c_conv, t_size, c_size),
     relative_effect  |-> StratumRelativeEffect(Effect(t_conv, c_conv, t_size, c_size),
                                                Rate(c_conv, c_size)),
     z_stat           |-> ProportionsZTest(t_conv, c_conv, t_size, c_size).z_stat,
     p_value          |-> ProportionsZTest(t_conv, c_conv, t_size, c_size).p_value,
     p_value_adjusted |-> StratumFlag(ProportionsZTest(t_conv, c_conv, t_size, c_size).p_value,
                                      a, bonferroni_alpha),
     ci_low           |-> CIOfDifference(t_conv, c_conv, t_size, c_size, bonferroni_alpha).low,
     ci_high          |-> CIOfDifference(t_conv, c_conv, t_size, c_size, bonferroni_alpha).upp]

\* lines 241-249: the rows of a stratum in one group
StratumRows(d, c, g) == CountryRows(d, c) \cap GroupRows(d, g)

CountryResult(d, c, a, bonferroni_alpha) ==
    StratumEntry(Conversions(d, StratumRows(d, c, "treatment")),
                 Conversions(d, StratumRows(d, c, "control")),
                 Cardinality(StratumRows(d, c, "treatment")),
                 Cardinality(StratumRows(d, c, "control")), a, bonferroni_alpha)

\* the sizes of the two groups of a stratum (lines 241-249)
StratumControlSize(d, c) == Cardinality(StratumRows(d, c, "control"))
StratumTreatmentSize(d, c) == Cardinality(StratumRows(d, c, "treatment"))

\* lines 239-251: the values of unique() whose stratum is tested, in loop order
TestedStrata(d) ==
    LET tested(c) == Testable(StratumControlSize(d, c), StratumTreatmentSize(d, c))
    IN  SelectSeq(Unique(d), tested)

\* lines 181, 209 and 239-275: the dictionary returned. results['overall'] is
\* assigned first and results[country] once for every tested value of unique(),
\* so an entry assigned in the loop replaces the one under the same key
ResultsDict(d, keys, a, bonferroni_alpha) ==
    [x \in {"overall"} \cup keys |->
        IF x \in keys THEN CountryResult(d, x, a, bonferroni_alpha)
        ELSE OverallResult(d, a)]

\* line 233: the number of tests of the Bonferroni correction
NTests(d) == Len(Unique(d))

NoResults == <<>>
NoReport == [n_tests |-> 0, bonferroni_alpha |-> NoAlpha, tested |-> <<>>]

\* the outcome of statistical_tests(): the error raised, or the results returned
\* and what was printed of the correction. 0.05 / 0 raises ZeroDivisionError
\* (line 234), after the overall test
StatisticalTestsOutcome(d, a) ==
    IF NTests(d) = 0
    THEN [raised |-> "ZeroDivisionError", results |-> NoResults, report |-> NoReport]
    ELSE [raised  |-> "none",
          results |-> ResultsDict(d, {TestedStrata(d)[i] : i \in 1..Len(TestedStrata(d))},
                                  a, AlphaOver(a, NTests(d))),
          report  |-> [n_tests |-> NTests(d),
                       bonferroni_alpha |-> AlphaOver(a, NTests(d)),
                       tested |-> TestedStrata(d)]]

(***************************************************************************)
(* power_analysis.  Cohen's h = 2 (arcsin sqrt t - arcsin sqrt c) is kept  *)
(* as the two rates it is computed from, and the power that ttest_power    *)
(* returns as the kind of value it is: nan, or a probability.              *)
(***************************************************************************)
\* lines 150-151: frame['converted'].mean() of a group, nan for no row
MeanConverted(d, g) ==
    IntDiv(Conversions(d, GroupRows(d, g)), Cardinality(GroupRows(d, g)))

\* line 154: 2 * (arcsin(sqrt(treatment_rate)) - arcsin(sqrt(control_rate)))
CohensH(t_rate, c_rate) ==
    IF IsNum(t_rate) /\ IsNum(c_rate)
    THEN [k |-> "num", treatment_rate |-> t_rate.v, control_rate |-> c_rate.v]
    ELSE [k |-> "nan", treatment_rate |-> 0, control_rate |-> 0]

\* lines 157-159: n_avg = (n_control + n_treatment) / 2, kept as 2 * n_avg
TwiceNAvg(d) == Cardinality(GroupRows(d, "control")) + Cardinality(GroupRows(d, "treatment"))

\* line 162, statsmodels' ttest_power(effect_size, nobs, alpha, 'two-sided'):
\* df = nobs - 1; the critical values stats.t.isf(alpha / 2, df) and
\* stats.t.ppf(alpha / 2, df) are nan for df <= 0 and the power is then nan;
\* otherwise the power is nct_sf(crit_upp, df, d sqrt(nobs))
\* + nct_cdf(crit_low, df, d sqrt(nobs)), a probability (nan for a nan d)
TTestPower(effect_size, twice_nobs) ==
    IF effect_size.k = "nan" THEN "nan"
    ELSE IF twice_nobs - 2 <= 0 THEN "nan"
    ELSE "prob"

NoPower ==
    [k |-> "none", effect_size |-> CohensH(NaN, NaN), twice_nobs |-> 0, alpha |-> NoAlpha]

\* the value power_analysis() returns, with the arguments it was computed from
PowerAnalysisOutcome(d, a) ==
    [k |-> TTestPower(CohensH(MeanConverted(d, "treatment"), MeanConverted(d, "control")),
                      TwiceNAvg(d)),
     effect_size |-> CohensH(MeanConverted(d, "treatment"), MeanConverted(d, "control")),
     twice_nobs  |-> TwiceNAvg(d),
     alpha       |-> a]

\* a variant storing the selection of line 150 back (self.data = self.data[mask])
ControlOnly(d) ==
    LET control(r) == r.con_treat = "control"
    IN  SelectSeq(d, control)

\* lines 150-151, 185-186 and 241-244: self.data[mask] builds a new frame and
\* the methods assign nothing to self.data; the stored frame after a call
KeepStored(d) == d

(***************************************************************************)
(* create_results_visualization(results): the thresholds and the colours   *)
(* of the p-value panel.                                                   *)
(***************************************************************************)
\* line 293: countries = [k for k in results.keys() if k != 'overall']
ResultCountries(res) == DOMAIN res \ {"overall"}

\* lines 350 and 354: the literal 0.05
PlotAlpha == <<5, 100>>

\* lines 350 and 355: 0.05 / len(countries)
PlotBonferroni(n) == <<PlotAlpha[1], PlotAlpha[2] * n>>

NoPlot ==
    [raised |-> "none", drawn |-> FALSE, bonferroni |-> NoAlpha, red |-> {}, orange |-> {}]

\* lines 349-356: a bar is red for p < 0.05 / len(countries), orange for
\* p < 0.05 and gray otherwise. Without a country the list of colours is
\* empty and the threshold line of line 355 raises ZeroDivisionError
CreateResultsVisualizationOutcome(res) ==
    IF ResultCountries(res) = {}
    THEN [raised |-> "ZeroDivisionError", drawn |-> FALSE, bonferroni |-> NoAlpha,
          red |-> {}, orange |-> {}]
    ELSE [raised |-> "none", drawn |-> TRUE,
          bonferroni |-> PlotBonferroni(Cardinality(ResultCountries(res))),
          red |-> {c \in ResultCountries(res) :
                      PLess(res[c].p_value,
                            PlotBonferroni(Cardinality(ResultCountries(res))))},
          orange |-> {c \in ResultCountries(res) :
                         /\ ~PLess(res[c].p_value,
                                   PlotBonferroni(Cardinality(ResultCountries(res))))
                         /\ PLess(res[c].p_value, PlotAlpha)}]

(***************************************************************************)
(* business_recommendations(results).                                      *)
(***************************************************************************)
\* x < c and x > c for a float x and an integer c; false for a nan x
FBelow(x, c) == (IsNum(x) /\ x.v < c * Scale) \/ (x.k = "inf" /\ x.v < 0)
FAbove(x, c) == (IsNum(x) /\ x.v > c * Scale) \/ (x.k = "inf" /\ x.v > 0)

\* lines 378-386: the finding printed for the overall relative effect
Finding(overall_effect) ==
    IF FBelow(overall_effect, 0 - 2) THEN "harming"
    ELSE IF FBelow(overall_effect, 0) THEN "negative"
    ELSE IF FAbove(overall_effect, 2) THEN "positive"
    ELSE "neutral"

\* lines 390-398: the countries with a negative relative effect
NegativeCountries(res) ==
    {c \in ResultCountries(res) : FBelow(res[c].relative_effect, 0)}

NoAdvice == [raised |-> "none", finding |-> "none", do_not_launch |-> FALSE, stop |-> FALSE]

\* results['overall']['significant'] (line 372) raises KeyError when the entry
\* under 'overall' has no such key
BusinessRecommendationsOutcome(res) ==
    IF "significant" \notin DOMAIN res["overall"]
    THEN [raised |-> "KeyError", finding |-> "none", do_not_launch |-> FALSE, stop |-> FALSE]
    ELSE [raised |-> "none",
          finding |-> Finding(res["overall"].relative_effect),
          do_not_launch |-> Cardinality(NegativeCountries(res)) >= 2,
          stop |-> FBelow(res["overall"].relative_effect, 0 - 1)]

(***************************************************************************)
(* Inputs: the two CSV files handed to the constructor.                    *)
(***************************************************************************)
\* Analysis inputs: one row per identifier, the page shown is the page of the
\* group, and the rows vary in group, outcome and stratum label.  A row kind
\* is a number t: its group, outcome and label are read off t.
CountrySeq == <<"US", "overall", NA>>
NKinds == 4 * Len(CountrySeq)

KindGroup(t) == IF t \div (2 * Len(CountrySeq)) = 0 THEN "control" ELSE "treatment"
KindConverted(t) == (t \div Len(CountrySeq)) % 2
KindCountry(t) == CountrySeq[(t % Len(CountrySeq)) + 1]
PageOf(g) == IF g = "control" THEN "old_page" ELSE "new_page"

\* the sequences of at most n row kinds in non-decreasing order, from kind lo
RECURSIVE KindSeqs(_, _)
KindSeqs(n, lo) ==
    IF n = 0 THEN {<<>>}
    ELSE {<<>>} \cup UNION {{<<t>> \o s : s \in KindSeqs(n - 1, t)} : t \in lo..(NKinds - 1)}

AnalysisAbTest(ts) ==
    [i \in 1..Len(ts) |->
        [id |-> i, con_treat |-> KindGroup(ts[i]), page |-> PageOf(KindGroup(ts[i])),
         converted |-> KindConverted(ts[i])]]

AnalysisCountries(ts) == [i \in 1..Len(ts) |-> [id |-> i, country |-> KindCountry(ts[i])]]

AnalysisInputs ==
    {[ab_test |-> AnalysisAbTest(ts), countries |-> AnalysisCountries(ts)] :
        ts \in KindSeqs(MaxRows, 0)}

\* Loading inputs: identifiers repeat, pages and groups may be wrong or missing,
\* and the countries file may repeat an identifier, lack one, or lack a label.
RawCells ==
    {<<g, p>> : g \in Groups, p \in Pages \cup {NA}} \cup {<<NA, "old_page">>}

RawRows ==
    {[id |-> i, con_treat |-> c[1], page |-> c[2], converted |-> 0] :
        i \in 1..2, c \in RawCells}

RawFiles == UNION {[1..n -> RawRows] : n \in 0..MaxRaw}

CountryFiles ==
    { <<[id |-> 1, country |-> "US"], [id |-> 2, country |-> "US"]>>,
      <<[id |-> 1, country |-> "US"], [id |-> 1, country |-> "overall"],
        [id |-> 2, country |-> NA]>>,
      <<[id |-> 2, country |-> "US"]>> }

LoadingInputs == {[ab_test |-> f, countries |-> c] : f \in RawFiles, c \in CountryFiles}

Inputs == AnalysisInputs \cup LoadingInputs

\* Inputs of a session of method calls: analysis inputs of at most MaxSession rows.
SessionInputs ==
    {[ab_test |-> AnalysisAbTest(ts), countries |-> AnalysisCountries(ts)] :
        ts \in KindSeqs(MaxSession, 0)}

\* Loaded datasets for the validation at the 1% threshold: groups of about a
\* hundred rows. The control rows are co rows with the old page, cn with the
\* new page and cna with a missing page; the treatment rows are tn with the
\* new page and to with the old page. Every identifier is unique and has the
\* label US, so the inner join keeps every row and nothing is dropped.
QualityPage(i, co, cn, cna, tn) ==
    IF i <= co THEN "old_page"
    ELSE IF i <= co + cn THEN "new_page"
    ELSE IF i <= co + cn + cna THEN NA
    ELSE IF i <= co + cn + cna + tn THEN "new_page"
    ELSE "old_page"

QualityAbTest(co, cn, cna, tn, to) ==
    [i \in 1..(co + cn + cna + tn + to) |->
        [id |-> i,
         con_treat |-> IF i <= co + cn + cna THEN "control" ELSE "treatment",
         page |-> QualityPage(i, co, cn, cna, tn),
         converted |-> 0]]

QualityCountries(n) == [i \in 1..n |-> [id |-> i, country |-> "US"]]

QualityLoaded(f, c) == [i \in 1..Len(f) |-> JoinRow(f[i], c[i])]

QualityInputs ==
    {[ab_test |-> QualityAbTest(co, cn, cna, 99, to),
      countries |-> QualityCountries(co + cn + cna + 99 + to)] :
        co \in (99 - MaxOdd)..100, cn \in 0..MaxOdd, cna \in 0..MaxOdd, to \in 0..MaxOdd}

\* The counts of the overall test of a dataset: the scenario of 120 conversions
\* of 1000 control rows and 150 of 1000 treatment rows, and its neighbours.
NoCounts == [c_conv |-> 0, c_size |-> 0, t_conv |-> 0, t_size |-> 0]

ScenarioCounts ==
    {[c_conv |-> 120 + i, c_size |-> 1000, t_conv |-> 150 + j, t_size |-> 1000] :
        i \in (0 - MaxShift)..MaxShift, j \in (0 - MaxShift)..MaxShift}

(***************************************************************************)
(* The analyzer.  pc is "new" before the constructor ran, "ready" once it  *)
(* returned and "failed" when it raised; raised is the error of the last   *)
(* call of the constructor or of statistical_tests ("none" when it         *)
(* returned).  power, plot and advice hold the outcome of the last call of *)
(* power_analysis, create_results_visualization and                        *)
(* business_recommendations, the error raised included.                    *)
(***************************************************************************)
Init ==
    /\ \E in \in Inputs : ab_test = in.ab_test /\ countries = in.countries
    /\ pc = "new"
    /\ data = <<>>
    /\ alpha = NoAlpha
    /\ raised = "none"
    /\ quality = NoQuality
    /\ results = NoResults
    /\ report = NoReport
    /\ power = NoPower
    /\ plot = NoPlot
    /\ advice = NoAdvice
    /\ counts = NoCounts

\* __init__ (lines 18-20): load_and_prepare_data, which ends with
\* _data_quality_checks, then self.alpha = 0.05
Construct ==
    /\ pc = "new"
    /\ LET d == LoadedData(ab_test, countries)
           q == DataQualityChecks(d)
       IN  /\ data' = d
           /\ raised' = q.raised
           /\ quality' = q.quality
           /\ pc' = IF q.raised = "none" THEN "ready" ELSE "failed"
           /\ alpha' = IF q.raised = "none" THEN NominalAlpha ELSE alpha
    /\ UNCHANGED <<ab_test, countries, results, report, power, plot, advice, counts>>

\* statistical_tests() on a constructed analyzer
StatisticalTests ==
    /\ pc = "ready"
    /\ LET o == StatisticalTestsOutcome(data, alpha)
       IN  /\ raised' = o.raised
           /\ results' = IF o.raised = "none" THEN o.results ELSE results
           /\ report' = IF o.raised = "none" THEN o.report ELSE report
    /\ UNCHANGED <<ab_test, countries, pc, data, alpha, quality,
                   power, plot, advice, counts>>

Next == Construct \/ StatisticalTests

Spec == Init /\ [][Next]_vars

(***************************************************************************)
(* A session: the constructor, then power_analysis, statistical_tests,     *)
(* create_results_visualization and business_recommendations in any order  *)
(* and any number of times, the last two with the dictionary that          *)
(* statistical_tests returned (lines 436-445).                             *)
(***************************************************************************)
InitSession ==
    /\ \E in \in SessionInputs : ab_test = in.ab_test /\ countries = in.countries
    /\ pc = "new"
    /\ data = <<>>
    /\ alpha = NoAlpha
    /\ raised = "none"
    /\ quality = NoQuality
    /\ results = NoResults
    /\ report = NoReport
    /\ power = NoPower
    /\ plot = NoPlot
    /\ advice = NoAdvice
    /\ counts = NoCounts

\* power_analysis() on a constructed analyzer
PowerAnalysis ==
    /\ pc = "ready"
    /\ power' = PowerAnalysisOutcome(data, alpha)
    /\ data' = KeepStored(data)
    /\ UNCHANGED <<ab_test, countries, pc, alpha, raised, quality, results, report,
                   plot, advice, counts>>

\* create_results_visualization(results) with the dictionary returned
CreateResultsVisualization ==
    /\ pc = "ready"
    /\ DOMAIN results # {}
    /\ plot' = CreateResultsVisualizationOutcome(results)
    /\ UNCHANGED <<ab_test, countries, pc, data, alpha, raised, quality, results, report,
                   power, advice, counts>>

\* business_recommendations(results) with the dictionary returned
BusinessRecommendations ==
    /\ pc = "ready"
    /\ DOMAIN results # {}
    /\ advice' = BusinessRecommendationsOutcome(results)
    /\ UNCHANGED <<ab_test, countries, pc, data, alpha, raised, quality, results, report,
                   power, plot, counts>>

NextSession ==
    \/ Construct
    \/ PowerAnalysis
    \/ StatisticalTests
    \/ CreateResultsVisualization
    \/ BusinessRecommendations

SpecSession == InitSession /\ [][NextSession]_vars

(***************************************************************************)
(* _data_quality_checks as a function of the loaded dataset: pc is         *)
(* "loaded" when load_and_prepare_data has stored the joined, deduplicated *)
(* data (line 43) and is about to validate it (line 47).                   *)
(***************************************************************************)
InitQuality ==
    /\ \E in \in QualityInputs :
          /\ ab_test = in.ab_test
          /\ countries = in.countries
          /\ data = QualityLoaded(in.ab_test, in.countries)
    /\ pc = "loaded"
    /\ alpha = NoAlpha
    /\ raised = "none"
    /\ quality = NoQuality
    /\ results = NoResults
    /\ report = NoReport
    /\ power = NoPower
    /\ plot = NoPlot
    /\ advice = NoAdvice
    /\ counts = NoCounts

\* line 47 and line 20: the validation of the loaded data, then self.alpha
ValidateLoaded ==
    /\ pc = "loaded"
    /\ raised' = DataQualityChecks(data).raised
    /\ quality' = DataQualityChecks(data).quality
    /\ pc' = IF DataQualityChecks(data).raised = "none" THEN "ready" ELSE "failed"
    /\ alpha' = IF DataQualityChecks(data).raised = "none" THEN NominalAlpha ELSE alpha
    /\ UNCHANGED <<ab_test, countries, data, results, report, power, plot, advice, counts>>

NextQuality == ValidateLoaded

SpecQuality == InitQuality /\ [][NextQuality]_vars

(***************************************************************************)
(* The overall test of statistical_tests (lines 185-219) as a function of  *)
(* the four counts it takes from the dataset: pc is "counted" for a        *)
(* constructed analyzer whose dataset is given by its counts, and "tested" *)
(* once the overall entry is computed.                                     *)
(***************************************************************************)
InitOverall ==
    /\ counts \in ScenarioCounts
    /\ pc = "counted"
    /\ ab_test = <<>>
    /\ countries = <<>>
    /\ data = <<>>
    /\ alpha = NominalAlpha
    /\ raised = "none"
    /\ quality = NoQuality
    /\ results = NoResults
    /\ report = NoReport
    /\ power = NoPower
    /\ plot = NoPlot
    /\ advice = NoAdvice

OverallTest ==
    /\ pc = "counted"
    /\ results' = [overall |-> OverallEntry(counts.t_conv, counts.c_conv,
                                            counts.t_size, counts.c_size, alpha)]
    /\ pc' = "tested"
    /\ UNCHANGED <<ab_test, countries, data, alpha, raised, quality, report,
                   power, plot, advice, counts>>

NextOverall == OverallTest

SpecOverall == InitOverall /\ [][NextOverall]_vars

(***************************************************************************)
(* statistical_tests as a function of the stored dataset: every            *)
(* deduplicated dataset of the analysis inputs, whatever the validation    *)
(* of the constructor would say of it (data is a public attribute).        *)
(***************************************************************************)
InitEngine ==
    /\ \E in \in AnalysisInputs :
          /\ ab_test = in.ab_test
          /\ countries = in.countries
          /\ data = LoadedData(in.ab_test, in.countries)
    /\ pc = "ready"
    /\ alpha = NominalAlpha
    /\ raised = "none"
    /\ quality = NoQuality
    /\ results = NoResults
    /\ report = NoReport
    /\ power = NoPower
    /\ plot = NoPlot
    /\ advice = NoAdvice
    /\ counts = NoCounts

NextEngine == StatisticalTests

SpecEngine == InitEngine /\ [][NextEngine]_vars

(***************************************************************************)
(* Properties.                                                             *)
(***************************************************************************)
\* statistical_tests() has returned a dictionary
Returned == DOMAIN results # {}

\* the keys of the returned dictionary that hold the entry of a stratum
StratumKeys == {x \in DOMAIN results : "p_value_adjusted" \in DOMAIN results[x]}

\* the stored dataset has a row of group g with stratum label c
HasRow(c, g) == \E i \in 1..Len(data) : data[i].country = c /\ data[i].con_treat = g

\* a group of the stored dataset has no row
EmptyGroup == \E g \in Groups : \A i \in 1..Len(data) : data[i].con_treat # g

\* C1: the Bonferroni divisor counts only the strata that are tested, so the
\* adjusted alpha is the nominal alpha over the number of strata that
\* received a result entry.
C1_DivisorCountsTestedStrata ==
    Returned =>
        /\ report.n_tests = Cardinality(StratumKeys)
        /\ report.bonferroni_alpha = AlphaOver(alpha, Cardinality(StratumKeys))

C3_EmptyGroupErrorExactly ==
    pc # "new" =>
        /\ EmptyGroup <=> (pc = "failed" /\ raised = "EmptyGroupError")
        /\ ~EmptyGroup => pc = "ready"

\* C4: in every scope whose control rate is 0 the relative effect reported is
\* the not-a-number marker, never 0 nor another number.
C4_RelativeEffectNaNAtZeroControl ==
    Returned =>
        \A x \in DOMAIN results :
            results[x].control_rate = Num(0) => IsNaN(results[x].relative_effect)

\* C5: the dictionary returned has a stratum entry for exactly the stratum
\* labels with rows in both groups, each computed once; a stratum with an
\* empty group gets no entry and neither aborts the call nor changes the
\* entries of the other strata; a missing label gets none.
C5_EntriesForTestableStrata ==
    Returned =>
        /\ raised = "none"
        /\ StratumKeys \subseteq Labels
        /\ DOMAIN results \subseteq Labels \cup {"overall"}
        /\ \A c \in Labels :
              c \in StratumKeys <=> (HasRow(c, "control") /\ HasRow(c, "treatment"))
        /\ {report.tested[i] : i \in 1..Len(report.tested)} = StratumKeys
        /\ \A i, j \in 1..Len(report.tested) :
              report.tested[i] = report.tested[j] => i = j

\* C5's case: one stratum tested beside a stratum with rows in one group only,
\* and rows with a missing label in both groups.
C5_Witness ==
    /\ Returned
    /\ \E c1, c2 \in Labels :
          /\ c1 \in StratumKeys
          /\ c2 \notin StratumKeys
          /\ HasRow(c2, "control") /\ ~HasRow(c2, "treatment")
    /\ HasRow(NA, "control") /\ HasRow(NA, "treatment")

\* C6: every entry carries the flag of the level of its own scope: the overall
\* flag is p < nominal alpha and a stratum's flag is p < adjusted alpha
\* (nominal alpha over the number of tests), so a stratum with
\* adjusted alpha <= p < nominal alpha is not significant.
C6_FlagAtLevelOfScope ==
    Returned =>
        /\ report.bonferroni_alpha = AlphaOver(alpha, report.n_tests)
        /\ \A x \in DOMAIN results :
              IF x \in StratumKeys
              THEN results[x].p_value_adjusted
                     = PLess(results[x].p_value, report.bonferroni_alpha)
              ELSE results[x].significant = PLess(results[x].p_value, alpha)

\* C6's case: a stratum whose p-value is below the nominal level and not below
\* the adjusted one, flagged not significant, in a result whose overall test
\* is significant.
C6_Witness ==
    /\ Returned
    /\ \E x \in StratumKeys :
          /\ PLess(results[x].p_value, alpha)
          /\ ~PLess(results[x].p_value, report.bonferroni_alpha)
          /\ ~results[x].p_value_adjusted
    /\ \E x \in DOMAIN results \ StratumKeys : results[x].significant

\* C7: whatever the stratum labels, the dictionary returned holds under
\* 'overall' the overall entry, with control_rate, treatment_rate, p_value and
\* significant.
C7_OverallEntryKept ==
    Returned =>
        /\ "overall" \in DOMAIN results
        /\ {"control_rate", "treatment_rate", "p_value", "significant"}
              \subseteq DOMAIN results["overall"]

\* the first row of d with identifier id
FirstRow(d, id) == d[CHOOSE i \in 1..Len(d) : d[i].id = id /\ ~Duplicated(d, i)]

\* C8: after load_and_prepare_data every identifier of the joined data is in
\* exactly one row, the first row the joined data has for it, in the joined
\* order; joined data without duplicates is kept as it is, and the stored
\* dataset has no duplicate left to remove.
C8_FirstSeenRowPerIdentifier ==
    pc # "new" =>
        LET merged == Merge(ab_test, countries)
        IN  /\ \A i, j \in 1..Len(data) : data[i].id = data[j].id => i = j
            /\ {data[i].id : i \in 1..Len(data)} = {merged[i].id : i \in 1..Len(merged)}
            /\ \A i \in 1..Len(data) : data[i] = FirstRow(merged, data[i].id)
            /\ \A i, j \in 1..Len(data) :
                  i < j => \E m, n \in 1..Len(merged) :
                              m < n /\ merged[m] = data[i] /\ merged[n] = data[j]
            /\ DuplicateCount(merged) = 0 => data = merged
            /\ DuplicateCount(data) = 0
            /\ DropDuplicates(data) = data

\* C8's case: a constructed analyzer whose joined data repeated an identifier
\* in rows that differ, with another identifier that was unique.
C8_Witness ==
    /\ pc = "ready"
    /\ LET merged == Merge(ab_test, countries)
       IN  /\ \E i, j \in 1..Len(merged) :
                 i < j /\ merged[i].id = merged[j].id /\ merged[i] # merged[j]
           /\ \E i \in 1..Len(merged) :
                 \A j \in 1..Len(merged) : merged[j].id = merged[i].id => j = i
           /\ Len(data) < Len(merged)

\* C9: the adjusted alpha of statistical_tests is defined (k >= 1, the call
\* does not raise) and is at most the nominal alpha, with equality exactly
\* when k = 1.
C9_AdjustedAlphaAtMostNominal ==
    /\ pc = "ready" => (NTests(data) >= 1 /\ raised = "none")
    /\ Returned =>
          /\ report.n_tests >= 1
          /\ ~RatLess(alpha, report.bonferroni_alpha)
          /\ RatEq(report.bonferroni_alpha, alpha) <=> report.n_tests = 1

\* C9's case: a returned result with several tests and an adjusted alpha
\* strictly below the nominal one.
C9_Witness ==
    /\ Returned
    /\ report.n_tests >= 2
    /\ RatLess(report.bonferroni_alpha, alpha)

\* C10: in every entry, ci_low <= effect_size <= ci_high with
\* effect_size = treatment rate - control rate.
C10_IntervalContainsEffect ==
    Returned =>
        \A x \in DOMAIN results :
            /\ results[x].effect_size
                 = FSub(results[x].treatment_rate, results[x].control_rate)
            /\ FLeq(results[x].ci_low, results[x].effect_size)
            /\ FLeq(results[x].effect_size, results[x].ci_high)

\* C10's case: an overall entry and a stratum entry, each with an effect that is
\* not 0 and an interval that is not a point.
C10_Witness ==
    /\ Returned
    /\ \E x \in StratumKeys, y \in DOMAIN results \ StratumKeys :
          /\ results[x].effect_size # Num(0)
          /\ results[y].effect_size # Num(0)
          /\ results[x].ci_low # results[x].ci_high
          /\ results[y].ci_low # results[y].ci_high

\* C11: in every scope whose two groups have the same conversion rate, the
\* rates 0 and 1 included, the two-proportion test gives the z statistic 0
\* and the p-value 1.
C11_EqualRatesGiveZeroStatistic ==
    Returned =>
        \A x \in DOMAIN results :
            (IsNum(results[x].control_rate)
               /\ results[x].treatment_rate = results[x].control_rate)
            => /\ results[x].z_stat.k = "num"
               /\ results[x].z_stat.num = 0
               /\ PIsOne(results[x].p_value)

\* the counts of the scenario: 120 conversions of 1000 control rows and 150 of
\* 1000 treatment rows
Scenario == [c_conv |-> 120, c_size |-> 1000, t_conv |-> 150, t_size |-> 1000]

\* C12: for the scenario at alpha = 0.05 the overall entry has control rate
\* 0.120, treatment rate 0.150, absolute effect +0.030, relative effect
\* +25.0%, a p-value below 0.05 and significant = true.
C12_ScenarioOverallResult ==
    (pc = "tested" /\ counts = Scenario) =>
        /\ alpha = NominalAlpha
        /\ results["overall"].control_rate = Num((120 * Scale) \div 1000)
        /\ results["overall"].treatment_rate = Num((150 * Scale) \div 1000)
        /\ results["overall"].effect_size = Num((30 * Scale) \div 1000)
        /\ results["overall"].relative_effect = Num(25 * Scale)
        /\ PLess(results["overall"].p_value, NominalAlpha)
        /\ results["overall"].significant = TRUE

\* C12's case: the overall test has run on the counts of the scenario.
C12_Witness ==
    /\ pc = "tested"
    /\ counts = Scenario
    /\ results["overall"].z_stat.k = "num"
    /\ results["overall"].z_stat.sign = 1

\* C13: on a constructed analyzer no call of power_analysis, statistical_tests,
\* create_results_visualization or business_recommendations changes the
\* stored dataset or the stored alpha, and a repeated statistical_tests or
\* power_analysis returns what the first call returned.
C13_MethodsLeaveStoredState ==
    [][pc = "ready" =>
          /\ data' = data
          /\ alpha' = alpha
          /\ (DOMAIN results # {} => (results' = results /\ report' = report))
          /\ (power.k # "none" => power' = power)]_vars

\* C13's case: the four methods have all been called on a dataset with rows
\* of both groups in several strata.
C13_Witness ==
    /\ pc = "ready"
    /\ Returned
    /\ power.k = "prob"
    /\ plot.drawn
    /\ advice.finding # "none"
    /\ Len(data) = MaxSession
    /\ data = LoadedData(ab_test, countries)
    /\ alpha = NominalAlpha

\* C14: on every dataset with rows in both groups power_analysis returns a
\* number of [0, 1], computed from Cohen's h of the two overall rates and the
\* average group size.
C14_PowerIsProbability ==
    (power.k # "none" /\ ~EmptyGroup) =>
        /\ power.k = "prob"
        /\ power.effect_size
             = CohensH(MeanConverted(data, "treatment"), MeanConverted(data, "control"))
        /\ power.twice_nobs = GroupSize(data, "control") + GroupSize(data, "treatment")

\* C15: whenever both groups of the loaded dataset have a row, the validation
\* of the constructor runs to completion, whatever is missing, misassigned or
\* unbalanced in the data: it raises nothing and the analyzer is constructed.
C15_AnomaliesNeverStopValidation ==
    (pc # "new" /\ ~EmptyGroup) => (pc = "ready" /\ alpha = NominalAlpha)

\* the rows of group g of the stored dataset that were shown page p
Exposed(g, p) ==
    Cardinality({i \in 1..Len(data) : data[i].con_treat = g /\ data[i].page = p})

\* C16: the constructor raises the high-misassignment warning exactly when the
\* misassignment rate of a group, the rows of the group shown the page of the
\* other group over all the rows of the group, is strictly above 1%; a rate of
\* exactly 1% raises none.
C16_WarningIffRateAboveOnePercent ==
    pc = "ready" =>
        (quality.high_misassignment
           <=> \/ 100 * Exposed("control", "new_page") > GroupSize(data, "control")
               \/ 100 * Exposed("treatment", "old_page") > GroupSize(data, "treatment"))

\* the rows of group g in the scope of the entry under key x: the stratum x for
\* a stratum entry, the whole dataset for the overall entry
ScopeRows(x, g) == IF x \in StratumKeys THEN StratumRows(data, x, g) ELSE GroupRows(data, g)

\* the level that decides the flag of the entry under key x
ScopeLevel(x) == IF x \in StratumKeys THEN report.bonferroni_alpha ELSE alpha

\* the single-proportion interval of group g in the scope of x, at level a
ScopeConfint(x, g, a) ==
    ProportionConfint(Conversions(data, ScopeRows(x, g)), Cardinality(ScopeRows(x, g)), a)

\* C17: in every entry ci_low = CI_low(treatment) - CI_high(control) and
\* ci_high = CI_high(treatment) - CI_low(control), the two single-proportion
\* intervals being those at the level that decides the flag of the entry: the
\* nominal alpha for the overall entry, the adjusted alpha for a stratum.
C17_IntervalAtLevelOfScope ==
    Returned =>
        \A x \in DOMAIN results :
            /\ results[x].ci_low
                 = FSub(ScopeConfint(x, "treatment", ScopeLevel(x)).low,
                        ScopeConfint(x, "control", ScopeLevel(x)).upp)
            /\ results[x].ci_high
                 = FSub(ScopeConfint(x, "treatment", ScopeLevel(x)).upp,
                        ScopeConfint(x, "control", ScopeLevel(x)).low)

\* C17's case: a stratum entry beside the overall entry, the adjusted alpha
\* below the nominal one, and a stratum interval that is wider than the
\* interval of the same counts at the nominal level.
C17_Witness ==
    /\ Returned
    /\ RatLess(report.bonferroni_alpha, alpha)
    /\ DOMAIN results \ StratumKeys # {}
    /\ \E x \in StratumKeys :
          /\ IsNum(results[x].ci_low)
          /\ results[x].ci_low.v
               < FSub(ScopeConfint(x, "treatment", alpha).low,
                      ScopeConfint(x, "control", alpha).upp).v

\* the values of unique() that the loop of statistical_tests visits
LoopStrata == {Unique(data)[i] : i \in 1..Len(Unique(data))}

\* the trials and the successes of group g summed over the strata cs[i], cs[i+1], ...
RECURSIVE StratumTrials(_, _, _)
StratumTrials(cs, i, g) ==
    IF i > Len(cs) THEN 0
    ELSE Cardinality(StratumRows(data, cs[i], g)) + StratumTrials(cs, i + 1, g)

RECURSIVE StratumSuccesses(_, _, _)
StratumSuccesses(cs, i, g) ==
    IF i > Len(cs) THEN 0
    ELSE Conversions(data, StratumRows(data, cs[i], g)) + StratumSuccesses(cs, i + 1, g)

\* C18: the samples of the strata are disjoint parts of the overall samples: a
\* row with a label is in the sample of exactly one stratum, for its own group
\* only; a row with a missing label is in no stratum's sample; so for each
\* group the trials and successes of the strata sum to at most the overall
\* counts, and to exactly them when no label is missing.
C18_StrataPartitionLabelledRows ==
    Returned =>
        /\ \A c \in LoopStrata, g \in Groups : StratumRows(data, c, g) \subseteq GroupRows(data, g)
        /\ \A i \in 1..Len(data), g \in Groups :
              Cardinality({c \in LoopStrata : i \in StratumRows(data, c, g)})
                = IF data[i].country # NA /\ data[i].con_treat = g THEN 1 ELSE 0
        /\ \A g \in Groups :
              /\ StratumTrials(Unique(data), 1, g) <= Cardinality(GroupRows(data, g))
              /\ StratumSuccesses(Unique(data), 1, g) <= Conversions(data, GroupRows(data, g))
              /\ (\A i \in 1..Len(data) : data[i].country # NA)
                    => /\ StratumTrials(Unique(data), 1, g) = Cardinality(GroupRows(data, g))
                       /\ StratumSuccesses(Unique(data), 1, g)
                            = Conversions(data, GroupRows(data, g))

\* C18's case: two strata with rows, and rows with a missing label that make
\* the strata of a group sum to less than its overall counts.
C18_Witness ==
    /\ Returned
    /\ \A c \in Labels : \E g \in Groups : StratumRows(data, c, g) # {}
    /\ StratumKeys # {}
    /\ \E g \in Groups :
          /\ HasRow(NA, g)
          /\ 0 < StratumTrials(Unique(data), 1, g)
          /\ StratumTrials(Unique(data), 1, g) < Cardinality(GroupRows(data, g))
          /\ 0 < StratumSuccesses(Unique(data), 1, g)
          /\ StratumSuccesses(Unique(data), 1, g) < Conversions(data, GroupRows(data, g))

\* C19: the Bonferroni threshold of the p-value panel, 0.05 over the number of
\* strata in the results, is the adjusted alpha that statistical_tests used
\* for the flags of these results, so a stratum is drawn as
\* Bonferroni-significant exactly when its p_value_adjusted flag is true.
C19_PlotThresholdIsAdjustedAlpha ==
    (plot.drawn \/ plot.raised # "none") =>
        /\ plot.raised = "none"
        /\ RatEq(plot.bonferroni, report.bonferroni_alpha)
        /\ \A c \in ResultCountries(results) :
              c \in plot.red <=> results[c].p_value_adjusted

====
